---- MODULE Spec2Model ----
(***************************************************************************)
(* Model of src/Main.py: the BezierSurface class (cubic Bezier curve       *)
(* extruded along a direction vector).                                     *)
(*                                                                         *)
(* Numbers.  The program computes with IEEE binary64 values held in numpy  *)
(* arrays.  A number is modelled as a pair <<n, d>>:                       *)
(*   d > 0            the rational n/d in lowest terms,                    *)
(*   <<1,0>>, <<-1,0>>  +inf and -inf,                                     *)
(*   <<0,0>>          NaN.                                                 *)
(* Arithmetic is exact on the finite values; the inputs are drawn from     *)
(* small integers, halves and vectors whose norm is rational.  Division by *)
(* zero follows numpy (0/0 = nan, x/0 = +-inf, a warning and no            *)
(* exception), and nan propagates through + and *.                         *)
(***************************************************************************)
EXTENDS Integers, Sequences, FiniteSets, TLC

VARIABLES input, pc, self, call, ret, displayed

vars == <<input, pc, self, call, ret, displayed>>

----------------------------------------------------------------------------
(* Bounds of the model *)

\* control point coordinates x range over -1..MaxCoord
MaxCoord == 1
\* curve parameters u are the multiples k/UDen, k in -1..UDen+1
UDen == 2
\* extrusion parameters v range over -1..MaxV
MaxV == 1
\* number of lines a file may carry after the seven the loader reads
MaxExtra == 1

----------------------------------------------------------------------------
(* binary64 values and their arithmetic *)

Abs(x) == IF x < 0 THEN -x ELSE x

Sgn(x) == IF x < 0 THEN -1 ELSE IF x = 0 THEN 0 ELSE 1

RECURSIVE GCD(_, _)
GCD(a, b) == IF b = 0 THEN a ELSE GCD(b, a % b)

NaN == <<0, 0>>

\* the value n/d
Float(n, d) ==
    IF d = 0 THEN <<Sgn(n), 0>>
    ELSE LET g == GCD(Abs(n), Abs(d))
             s == Sgn(d)
         IN  <<(s * n) \div g, (s * d) \div g>>

Num(k) == <<k, 1>>

IsFinite(a) == a[2] # 0

Neg(a) == <<-a[1], a[2]>>

Mul(a, b) == Float(a[1] * b[1], a[2] * b[2])

Add(a, b) ==
    IF a[2] = 0 /\ b[2] = 0
    THEN (IF a = b THEN a ELSE NaN)
    ELSE Float(a[1] * b[2] + b[1] * a[2], a[2] * b[2])

Sub(a, b) == Add(a, Neg(b))

Div(a, b) == Float(a[1] * b[2], a[2] * b[1])

\* exact square root of a perfect square
ISqrt(n) == CHOOSE r \in 0..n : r * r = n

Sqrt(a) ==
    IF a[2] = 0 THEN (IF a[1] > 0 THEN a ELSE NaN)
    ELSE IF a[1] < 0 THEN NaN
    ELSE <<ISqrt(a[1]), ISqrt(a[2])>>

\* the == of two floats: nan equals nothing, itself included
FEq(a, b) == a # NaN /\ b # NaN /\ a = b

Less(a, b) == IsFinite(a) /\ IsFinite(b) /\ a[1] * b[2] < b[1] * a[2]

Leq(a, b) == IsFinite(a) /\ IsFinite(b) /\ a[1] * b[2] <= b[1] * a[2]

----------------------------------------------------------------------------
(* numpy arrays: sequences of floats *)

VScale(c, p) == [i \in DOMAIN p |-> Mul(c, p[i])]

VAdd(p, q) == [i \in DOMAIN p |-> Add(p[i], q[i])]

VSub(p, q) == [i \in DOMAIN p |-> Sub(p[i], q[i])]

VDiv(p, c) == [i \in DOMAIN p |-> Div(p[i], c)]

\* np.array_equal: every component ==
VEq(p, q) == DOMAIN p = DOMAIN q /\ \A i \in DOMAIN p : FEq(p[i], q[i])

RECURSIVE SumSq(_, _)
SumSq(p, n) == IF n = 0 THEN Num(0) ELSE Add(SumSq(p, n - 1), Mul(p[n], p[n]))

\* np.linalg.norm of a 1-D array
linalg_norm(p) == Sqrt(SumSq(p, Len(p)))

----------------------------------------------------------------------------
(* class BezierSurface *)

One == Num(1)

None == [kind |-> "None"]

\* the constructor without the normalization of line 8
BezierSurface_init_unnormalized(control_points, delta, direction_vector, u0, v0) ==
    [kind             |-> "BezierSurface",
     control_points   |-> control_points,
     delta            |-> delta,
     direction_vector |-> direction_vector,
     u0               |-> u0,
     v0               |-> v0]

\* BezierSurface.__init__
BezierSurface_init(control_points, delta, direction_vector, u0, v0) ==
    [kind             |-> "BezierSurface",
     control_points   |-> control_points,
     delta            |-> delta,
     direction_vector |-> VDiv(direction_vector, linalg_norm(direction_vector)),
     u0               |-> u0,
     v0               |-> v0]

\* line 22 with (1 + u) for (1 - u)
p01_plus(p0, p1, p2, p3, u) == VAdd(VScale(Add(One, u), p0), VScale(u, p1))

\* the de Casteljau points of bezier_point, named as its locals
p01(p0, p1, p2, p3, u) == VAdd(VScale(Sub(One, u), p0), VScale(u, p1))

p12(p0, p1, p2, p3, u) == VAdd(VScale(Sub(One, u), p1), VScale(u, p2))

p23(p0, p1, p2, p3, u) == VAdd(VScale(Sub(One, u), p2), VScale(u, p3))

p012(p0, p1, p2, p3, u) ==
    VAdd(VScale(Sub(One, u), p01(p0, p1, p2, p3, u)),
         VScale(u, p12(p0, p1, p2, p3, u)))

p123(p0, p1, p2, p3, u) ==
    VAdd(VScale(Sub(One, u), p12(p0, p1, p2, p3, u)),
         VScale(u, p23(p0, p1, p2, p3, u)))

\* line 29 with p012 for p123
bezier_point_p012_twice(p0, p1, p2, p3, u) ==
    VAdd(VScale(Sub(One, u), p012(p0, p1, p2, p3, u)),
         VScale(u, p012(p0, p1, p2, p3, u)))

bezier_point(p0, p1, p2, p3, u) ==
    VAdd(VScale(Sub(One, u), p012(p0, p1, p2, p3, u)),
         VScale(u, p123(p0, p1, p2, p3, u)))

Return(x) == [kind |-> "return", exc |-> "", value |-> x]

Raise(e) == [kind |-> "raise", exc |-> e, value |-> <<>>]

\* BezierSurface.surface_point: what the call on object s returns or raises.
\* bezier_point(*self.control_points, u) takes exactly four points.
surface_point(s, u, v) ==
    IF Len(s.control_points) # 4 THEN Raise("TypeError")
    ELSE LET cp   == s.control_points
             r_u  == bezier_point(cp[1], cp[2], cp[3], cp[4], u)
             r_uv == VAdd(r_u, VScale(Mul(v, s.delta), s.direction_vector))
         IN  Return(r_uv)

----------------------------------------------------------------------------
(* The input file: a sequence of lines.  A line is its tokens (the result  *)
(* of split()) and whether it starts with white space.  A token is a       *)
(* number float() accepts, or a word it rejects; hash says that the word   *)
(* starts with '#'.                                                        *)

NumTok(a) == [num |-> TRUE, val |-> a, hash |-> FALSE]

WordTok == [num |-> FALSE, val |-> Num(0), hash |-> FALSE]

HashTok == [num |-> FALSE, val |-> Num(0), hash |-> TRUE]

Line(toks) == [lead |-> FALSE, toks |-> toks]

Indented(toks) == [lead |-> TRUE, toks |-> toks]

\* line 55: if line.strip() and not line.startswith('#')
Kept(line) ==
    /\ line.toks # <<>>
    /\ ~(~line.lead /\ line.toks[1].hash)

\* [float(x) for x in line.split()] succeeds
AllFloats(line) == \A i \in DOMAIN line.toks : line.toks[i].num

Floats(line) == [i \in DOMAIN line.toks |-> line.toks[i].val]

\* float(line) on the whole stripped line
IsFloat(line) == Len(line.toks) = 1 /\ line.toks[1].num

\* from_file without the check of lines 64-65 on the control points
from_file_unvalidated(file) ==
    LET lines == SelectSeq(file, Kept)
        fail(e) == [self |-> None, ret |-> Raise(e)]
    IN  IF Len(lines) < 7 THEN fail("ValueError")
        ELSE IF \E i \in 1..4 : ~AllFloats(lines[i]) THEN fail("ValueError")
        ELSE LET control_points == [i \in 1..4 |-> Floats(lines[i])]
        IN  IF ~IsFloat(lines[5]) THEN fail("ValueError")
        ELSE IF ~AllFloats(lines[6]) THEN fail("ValueError")
        ELSE IF Len(lines[6].toks) # 3 THEN fail("ValueError")
        ELSE LET delta == lines[5].toks[1].val
                 raw   == Floats(lines[6])
                 direction_vector == VDiv(raw, linalg_norm(raw))
        IN  IF ~AllFloats(lines[7]) \/ Len(lines[7].toks) # 2 THEN fail("ValueError")
        ELSE LET obj == BezierSurface_init(control_points, delta, direction_vector,
                                           lines[7].toks[1].val, lines[7].toks[2].val)
        IN  [self |-> obj, ret |-> Return(obj)]

\* BezierSurface.from_file on the file's lines: the object built (or None)
\* and what the call returns or raises.
from_file(file) ==
    LET lines == SelectSeq(file, Kept)
        fail(e) == [self |-> None, ret |-> Raise(e)]
    IN  IF Len(lines) < 7 THEN fail("ValueError")
        ELSE IF \E i \in 1..4 : ~AllFloats(lines[i]) THEN fail("ValueError")
        ELSE LET control_points == [i \in 1..4 |-> Floats(lines[i])]
        IN  IF \E i \in 1..4 : Len(control_points[i]) # 3 THEN fail("ValueError")
        ELSE IF ~IsFloat(lines[5]) THEN fail("ValueError")
        ELSE IF ~AllFloats(lines[6]) THEN fail("ValueError")
        ELSE IF Len(lines[6].toks) # 3 THEN fail("ValueError")
        ELSE LET delta == lines[5].toks[1].val
                 raw   == Floats(lines[6])
                 direction_vector == VDiv(raw, linalg_norm(raw))
        IN  IF ~AllFloats(lines[7]) \/ Len(lines[7].toks) # 2 THEN fail("ValueError")
        ELSE LET obj == BezierSurface_init(control_points, delta, direction_vector,
                                           lines[7].toks[1].val, lines[7].toks[2].val)
        IN  [self |-> obj, ret |-> Return(obj)]

----------------------------------------------------------------------------
(* Inputs *)

Pt(x, y, z) == <<Num(x), Num(y), Num(z)>>

\* control points given to bezier_point called on its own
CurvePoints == {Pt(x, y, x - y) : x \in -1..MaxCoord, y \in {0, 2}}

CurvePolygons == [1..4 -> CurvePoints]

\* control polygons of the surfaces: the polygon of the worked example, its
\* reverse, and one with a repeated point and points off the plane z = 0
Example == <<Pt(0, 0, 0), Pt(1, 2, 0), Pt(2, 2, 0), Pt(3, 0, 0)>>

Reversed(cp) == [i \in DOMAIN cp |-> cp[Len(cp) + 1 - i]]

Polygons ==
    {Example, Reversed(Example),
     <<Pt(1, 2, -1), Pt(1, 2, -1), Pt(0, 0, 0), Pt(-1, 0, 3)>>}

\* three control points only
Triangles == {SubSeq(cp, 1, 3) : cp \in Polygons}

\* curve parameters, inside and outside [0, 1]
U == {Float(k, UDen) : k \in -1..(UDen + 1)}

V == {Num(k) : k \in -1..MaxV}

Deltas == {Num(2), Num(-1)}

Zero3 == Pt(0, 0, 0)

\* direction vectors with a rational norm; the zero vector; unit vectors
Directions ==
    {Zero3, Pt(0, 0, 5), Pt(3, 4, 0), Pt(0, -1, 0), Pt(-2, 1, 2),
     <<Float(3, 5), Float(4, 5), Num(0)>>}

FileDirections == {Zero3, Pt(0, 0, 5), Pt(3, 4, 0)}

Defaults == {<<Float(1, 2), Num(1)>>, <<Num(0), Num(0)>>}

\* the arguments of a direct BezierSurface(...) call
ArgInputs ==
    {[kind |-> "args", control_points |-> cp, delta |-> d,
      direction_vector |-> dir, u0 |-> uv[1], v0 |-> uv[2]] :
        cp \in Polygons \cup Triangles, d \in Deltas,
        dir \in Directions, uv \in Defaults}

NumLine(p) == Line([i \in DOMAIN p |-> NumTok(p[i])])

\* a well-formed file of seven lines
GoodFile(cp, d, dir, uv) ==
    <<NumLine(cp[1]), NumLine(cp[2]), NumLine(cp[3]), NumLine(cp[4]),
      NumLine(<<d>>), NumLine(dir), NumLine(uv)>>

GoodFiles ==
    {GoodFile(cp, Num(2), dir, <<Float(1, 2), Num(1)>>) :
        cp \in {Example}, dir \in FileDirections}

Blank == Line(<<>>)

Comment == Line(<<HashTok, WordTok>>)

IndentedComment == Indented(<<HashTok, WordTok>>)

SkippedLines == {Blank, Indented(<<>>), Comment}

\* lines an edit puts in place of a line of a well-formed file
EditLines ==
    {NumLine(<<Num(1)>>), NumLine(<<Num(1), Num(0)>>),
     NumLine(<<Num(0), Num(1), Num(0)>>),
     Indented(<<NumTok(Num(0)), NumTok(Num(0)), NumTok(Num(2))>>),
     NumLine(<<Num(1), Num(2), Num(3), Num(4)>>),
     Line(<<WordTok>>), Line(<<NumTok(Num(1)), WordTok, NumTok(Num(2))>>),
     Line(<<NumTok(Num(1)), WordTok>>),
     IndentedComment}

Replace(f, i, l) == [f EXCEPT ![i] = l]

Insert(f, i, l) == SubSeq(f, 1, i - 1) \o <<l>> \o SubSeq(f, i, Len(f))

Extras == UNION {[1..n -> EditLines] : n \in 0..MaxExtra}

\* the well-formed files, and those one edit away from one
Files ==
    UNION {   {f \o x : x \in Extras}
         \cup {Replace(f, i, l) : i \in 1..7, l \in EditLines}
         \cup {Insert(f, i, l) : i \in 1..8, l \in SkippedLines \cup {IndentedComment}}
         \cup {SubSeq(f, 1, n) : n \in 0..6}
         \cup {Insert(SubSeq(f, 1, 6), i, l) : i \in 1..7, l \in SkippedLines \cup {IndentedComment}}
        : f \in GoodFiles}

FileInputs == {[kind |-> "file", lines |-> f] : f \in Files} \cup {[kind |-> "nofile"]}

----------------------------------------------------------------------------
(* The program *)

NoCall == [op |-> "none"]

Init ==
    /\ input \in ArgInputs \cup FileInputs
    /\ pc = "start"
    /\ self = None
    /\ call = NoCall
    /\ ret = Return(<<>>)
    /\ displayed = <<>>

\* BezierSurface(control_points, delta, direction_vector, u0, v0)
Construct ==
    /\ pc = "start"
    /\ input.kind = "args"
    /\ self' = BezierSurface_init(input.control_points, input.delta,
                                  input.direction_vector, input.u0, input.v0)
    /\ call' = [op |-> "__init__"]
    /\ ret' = Return(self')
    /\ pc' = "constructed"
    /\ UNCHANGED <<input, displayed>>

\* BezierSurface.from_file(filepath), as main calls it
FromFile ==
    /\ pc = "start"
    /\ input.kind \in {"file", "nofile"}
    /\ call' = [op |-> "from_file"]
    /\ IF input.kind = "nofile"
       THEN /\ self' = None
            /\ ret' = Raise("FileNotFoundError")
            /\ pc' = "raised"
       ELSE LET r == from_file(input.lines)
            IN  /\ self' = r.self
                /\ ret' = r.ret
                /\ pc' = IF r.ret.kind = "raise" THEN "raised" ELSE "constructed"
    /\ UNCHANGED <<input, displayed>>

\* surface_point keeping the parameters of the call as the new defaults
SurfacePoint_caching(u, v) ==
    /\ pc = "constructed"
    /\ call' = [op |-> "surface_point", u |-> u, v |-> v]
    /\ ret' = surface_point(self, u, v)
    /\ self' = [self EXCEPT !.u0 = u, !.v0 = v]
    /\ UNCHANGED <<input, pc, displayed>>

\* self.surface_point(u, v)
SurfacePoint(u, v) ==
    /\ pc = "constructed"
    /\ call' = [op |-> "surface_point", u |-> u, v |-> v]
    /\ ret' = surface_point(self, u, v)
    /\ UNCHANGED <<input, pc, self, displayed>>

\* self.calculate_and_display_point()
CalculateAndDisplayPoint ==
    /\ pc = "constructed"
    /\ call' = [op |-> "calculate_and_display_point"]
    /\ LET r == surface_point(self, self.u0, self.v0)
       IN  IF r.kind = "raise"
           THEN /\ ret' = r
                /\ UNCHANGED displayed
           ELSE /\ ret' = Return(<<>>)
                /\ displayed' = <<self.u0, self.v0, r.value>>
    /\ UNCHANGED <<input, pc, self>>

Next ==
    \/ Construct
    \/ FromFile
    \/ \E u \in U, v \in V : SurfacePoint(u, v)
    \/ CalculateAndDisplayPoint

Spec == Init /\ [][Next]_vars

----------------------------------------------------------------------------
(* The curve evaluator on its own *)

InitCurve ==
    /\ input \in {[kind |-> "points", control_points |-> cp] : cp \in CurvePolygons}
    /\ pc = "start"
    /\ self = None
    /\ call = NoCall
    /\ ret = Return(<<>>)
    /\ displayed = <<>>

\* BezierSurface.bezier_point(p0, p1, p2, p3, u), a static method
BezierPoint(u) ==
    /\ input.kind = "points"
    /\ LET cp == input.control_points
       IN  ret' = Return(bezier_point(cp[1], cp[2], cp[3], cp[4], u))
    /\ call' = [op |-> "bezier_point", u |-> u]
    /\ UNCHANGED <<input, pc, self, displayed>>

NextCurve == \E u \in U : BezierPoint(u)

SpecCurve == InitCurve /\ [][NextCurve]_vars

----------------------------------------------------------------------------
(* Vocabulary of the properties *)

\* a line whose first non-blank character is '#'
IsComment(line) == line.toks # <<>> /\ line.toks[1].hash

IsData(line) == line.toks # <<>> /\ ~IsComment(line)

\* the non-blank, non-comment lines of the input file
DataLines == SelectSeq(input.lines, IsData)

\* the line consists of exactly n numeric tokens
NumericTokens(line, n) == Len(line.toks) = n /\ AllFloats(line)

\* the direction vector as the caller or the file gives it
HasRawDirection ==
    \/ input.kind = "args"
    \/ /\ input.kind = "file"
       /\ Len(DataLines) >= 6
       /\ NumericTokens(DataLines[6], 3)

RawDirection ==
    IF input.kind = "args" THEN input.direction_vector ELSE Floats(DataLines[6])

Dot(p, q) == Add(Add(Mul(p[1], q[1]), Mul(p[2], q[2])), Mul(p[3], q[3]))

\* d = k * r for some k > 0
SameRay(d, r) ==
    /\ \A i, j \in 1..3 : Mul(d[i], r[j]) = Mul(d[j], r[i])
    /\ Less(Num(0), Dot(d, r))

Constructed == self # None

\* the object the constructor builds from the input
Built ==
    IF input.kind = "args"
    THEN BezierSurface_init(input.control_points, input.delta,
                            input.direction_vector, input.u0, input.v0)
    ELSE from_file(input.lines).self

----------------------------------------------------------------------------
(* C1: constructing a surface from the zero direction vector fails and     *)
(* produces no object, by the constructor and by the file loader alike: no *)
(* reachable state holds a surface whose direction input was (0, 0, 0).    *)
C1_ZeroDirectionRejected ==
    (HasRawDirection /\ RawDirection = Zero3) => ~Constructed

(* C2: constructing a surface from a number of control points other than   *)
(* four fails at construction: no object is produced, and no later         *)
(* surface_point call is what reports the wrong count.                     *)
C2_WrongCountRejected ==
    (input.kind = "args" /\ Len(input.control_points) # 4) =>
        /\ ~Constructed
        /\ ~(call.op = "surface_point" /\ ret.kind = "raise")

(* C3: for a non-zero direction input, in every state of the object, the   *)
(* stored direction has norm 1 and is a positive multiple of the input; an *)
(* input of norm 1 is stored as it is, and the loader's vector, normalized *)
(* before the constructor sees it, is stored as the loader normalized it.  *)
C3_UnitDirection ==
    (Constructed /\ HasRawDirection /\ RawDirection # Zero3) =>
        /\ SumSq(self.direction_vector, 3) = One
        /\ SameRay(self.direction_vector, RawDirection)
        /\ (SumSq(RawDirection, 3) = One => self.direction_vector = RawDirection)
        /\ (input.kind = "file" =>
                self.direction_vector = VDiv(RawDirection, linalg_norm(RawDirection)))

C3_Witness ==
    /\ Constructed
    /\ input.kind = "file"
    /\ RawDirection = Pt(3, 4, 0)
    /\ self.direction_vector = <<Float(3, 5), Float(4, 5), Num(0)>>
    /\ call.op = "surface_point"
    /\ displayed # <<>>

(* C4: bezier_point returns exactly p0 at u = 0 and exactly p3 at u = 1,   *)
(* whatever p1 and p2 are.                                                 *)
C4_Endpoints ==
    call.op = "bezier_point" =>
        /\ (call.u = Num(0) => VEq(ret.value, input.control_points[1]))
        /\ (call.u = One => VEq(ret.value, input.control_points[4]))

C4_Witness ==
    /\ call.op = "bezier_point"
    /\ call.u = One
    /\ input.control_points[3] # input.control_points[4]
    /\ input.control_points[1] # input.control_points[4]
    /\ ret.value = input.control_points[4]

(* C5: for every constructed surface and every u, surface_point(u, 0) is   *)
(* bezier_point(p0, p1, p2, p3, u) on the stored control points.           *)
C5_VZeroIsBaseCurve ==
    (Constructed /\ call.op = "surface_point" /\ call.v = Num(0)) =>
        /\ ret.kind = "return"
        /\ LET cp == self.control_points
           IN  VEq(ret.value, bezier_point(cp[1], cp[2], cp[3], cp[4], call.u))

(* C6: for every constructed surface and all u, v1, v2,                    *)
(* surface_point(u, v2) - surface_point(u, v1) = (v2 - v1) * delta *       *)
(* direction.                                                              *)
C6_LinearInV ==
    (Constructed /\ call.op = "surface_point") =>
        /\ ret.kind = "return"
        /\ \A v1 \in V :
              VEq(VSub(ret.value, surface_point(self, call.u, v1).value),
                  VScale(Mul(Sub(call.v, v1), self.delta), self.direction_vector))

(* C7: bezier_point(p0, p1, p2, p3, u) = bezier_point(p3, p2, p1, p0, 1-u) *)
(* for all control points and all u.                                       *)
C7_Reversal ==
    call.op = "bezier_point" =>
        LET cp == input.control_points
        IN  VEq(ret.value,
                bezier_point(cp[4], cp[3], cp[2], cp[1], Sub(One, call.u)))

C7_Witness ==
    /\ call.op = "bezier_point"
    /\ Less(One, call.u)
    /\ input.control_points # Reversed(input.control_points)
    /\ ret.value # input.control_points[4]

Min4(a, b, c, d) == CHOOSE m \in {a, b, c, d} : \A x \in {a, b, c, d} : Leq(m, x)

Max4(a, b, c, d) == CHOOSE m \in {a, b, c, d} : \A x \in {a, b, c, d} : Leq(x, m)

\* each coordinate of q lies between the least and the greatest of that
\* coordinate over the four control points
InBox(q, cp) ==
    \A i \in 1..3 :
        /\ Leq(Min4(cp[1][i], cp[2][i], cp[3][i], cp[4][i]), q[i])
        /\ Leq(q[i], Max4(cp[1][i], cp[2][i], cp[3][i], cp[4][i]))

(* C8: for 0 <= u <= 1 every coordinate of bezier_point(p0, p1, p2, p3, u) *)
(* and of each intermediate point p01, p12, p23, p012, p123 lies between   *)
(* the minimum and the maximum of that coordinate over p0..p3.             *)
C8_ConvexHull ==
    (call.op = "bezier_point" /\ Leq(Num(0), call.u) /\ Leq(call.u, One)) =>
        LET cp == input.control_points
            u  == call.u
        IN  /\ InBox(ret.value, cp)
            /\ InBox(p01(cp[1], cp[2], cp[3], cp[4], u), cp)
            /\ InBox(p12(cp[1], cp[2], cp[3], cp[4], u), cp)
            /\ InBox(p23(cp[1], cp[2], cp[3], cp[4], u), cp)
            /\ InBox(p012(cp[1], cp[2], cp[3], cp[4], u), cp)
            /\ InBox(p123(cp[1], cp[2], cp[3], cp[4], u), cp)

C8_Witness ==
    /\ call.op = "bezier_point"
    /\ Less(Num(0), call.u) /\ Less(call.u, One)
    /\ \A i \in 1..4 : ret.value # input.control_points[i]
    /\ Cardinality({input.control_points[i] : i \in 1..4}) = 4

(* C9: surface_point and calculate_and_display_point leave the control     *)
(* points, delta, the direction, u0 and v0 as the constructor set them, so *)
(* what an evaluation returns depends on the constructor's input and on    *)
(* (u, v) alone, not on the evaluations before it.                         *)
C9_Immutable ==
    pc = "constructed" =>
        /\ self = Built
        /\ (call.op = "surface_point" =>
                ret = surface_point(Built, call.u, call.v))
        /\ (displayed # <<>> =>
                displayed = <<Built.u0, Built.v0,
                              surface_point(Built, Built.u0, Built.v0).value>>)

C9_Witness ==
    /\ pc = "constructed"
    /\ call.op = "surface_point"
    /\ ret.kind = "return"
    /\ displayed # <<>>
    /\ <<call.u, call.v>> # <<self.u0, self.v0>>
    /\ ret.value # displayed[3]

\* the record is malformed: one of the cases the loader has to reject
Malformed ==
    \/ Len(DataLines) < 7
    \/ \E i \in 1..4 : ~NumericTokens(DataLines[i], 3)
    \/ ~NumericTokens(DataLines[5], 1)
    \/ ~NumericTokens(DataLines[6], 3)
    \/ ~NumericTokens(DataLines[7], 2)

(* C10: from_file raises ValueError, and builds no object, on a file with  *)
(* fewer than 7 non-blank non-comment lines, or with a control point line  *)
(* that is not 3 numbers, a delta line that is not one number, a direction *)
(* line that is not 3 numbers or a seventh line that is not 2 numbers; a   *)
(* surface it returns holds 4 control points of 3 coordinates each.        *)
C10_LoaderRejects ==
    (input.kind = "file" /\ pc # "start") =>
        /\ (Malformed => (pc = "raised" /\ ~Constructed /\ ret = Raise("ValueError")))
        /\ (Constructed =>
                /\ Len(self.control_points) = 4
                /\ \A i \in 1..4 : Len(self.control_points[i]) = 3)

C10_Witness ==
    /\ input.kind = "file"
    /\ pc = "raised"
    /\ Len(DataLines) >= 7
    /\ Malformed
    /\ \A i \in 1..4 : AllFloats(DataLines[i])
    /\ \E i \in 1..4 : Len(DataLines[i].toks) # 3

====
